---- MODULE Spec2Model ----
(***************************************************************************)
(* Model of the cherry-picker terminal UI (src/models.go, src/tui.go,      *)
(* src/git.go): the CherryPicker struct is the record cp, one action per   *)
(* key handled by Update / handleSearchInput / handleBranchInput /         *)
(* handleConflictInput / handleEditorInput / handleAuthorInput, each       *)
(* followed by the View call the event loop makes after every Update.      *)
(*                                                                         *)
(* Conventions.  Go slices are sequences; every index stored in the state  *)
(* (currentIndex, rangeStart, rangeEnd, filteredCommits, branchIndex) is   *)
(* 0-based as in the code, and At(s, i) reads element i.  Go strings are   *)
(* sequences of one-character strings so that strings.ToLower and          *)
(* strings.Contains can be computed.  map[string]bool is the set of keys   *)
(* mapped to true.  A *Commit into cp.commits is the slot index it points  *)
(* to (NilCommit for nil).  An out-of-range slice index is a Go run-time   *)
(* panic: the handler stops and the program ends (panicked).               *)
(***************************************************************************)
EXTENDS Integers, Sequences, FiniteSets, TLC

VARIABLES cp

vars == <<cp>>

\* ------------------------------------------------------------------ bounds
MaxCommits == 3
MaxOrderCommits == 4
MaxQuery == 1
MaxScenarioQuery == 3
RangeDrift == 1
MaxConflictFiles == 2
MaxContinues == 2
MaxDrops == 2
MaxModeCommits == 2
MaxSwitchCommits == 2
MaxAuthorQuery == 1

\* --------------------------------------------------------------- constants
maxCommitsPerPage == 25
pageJump == 25
NilCommit == -1
PanicSlot == -2

\* ----------------------------------------------------------------- strings
UpperLetters == <<"A","B","C","D","E","F","G","H","I","J","K","L","M",
                  "N","O","P","Q","R","S","T","U","V","W","X","Y","Z">>
LowerLetters == <<"a","b","c","d","e","f","g","h","i","j","k","l","m",
                  "n","o","p","q","r","s","t","u","v","w","x","y","z">>

ToLowerChar(c) ==
  IF \E k \in 1..26 : UpperLetters[k] = c
  THEN LowerLetters[CHOOSE k \in 1..26 : UpperLetters[k] = c]
  ELSE c

ToLower(str) == [k \in 1..Len(str) |-> ToLowerChar(str[k])]

Contains(str, sub) ==
  \E k \in 0..(Len(str) - Len(sub)) : SubSeq(str, k + 1, k + Len(sub)) = sub

At(s, i) == s[i + 1]

Reverse(s) == [k \in 1..Len(s) |-> s[Len(s) + 1 - k]]

Min(a, b) == IF a < b THEN a ELSE b

\* ------------------------------------------- the repository (collaborator)
\* The version-control tool is outside the program.  Its answers are drawn
\* from a small repository: commit i of the source branch (1 = oldest) has
\* the fields below, and `git log` may list any number n <= MaxCommits of
\* them (the remote is fetched before every load, so n can change).
Branches == <<"dev", "main">>

Chars == {"a", "B", "z"}

ShaOf(i) == <<ToString(i), "e">>

MessageOf(i) ==
  CASE i % 3 = 1 -> <<"a", "b">>
    [] i % 3 = 2 -> <<"B", "c">>
    [] OTHER     -> <<"c", "a">>

FilesOf(i) == IF i % 3 = 0 THEN << <<"d">> >> ELSE << >>

\* git merge-base --is-ancestor sha target, for a commit that git log of
\* the source lists: every commit of a branch is an ancestor of that branch
IsAncestor(i, target, source) == target = source \/ (target # "main" /\ i = 2)

\* git log <source> --author=<a> --oneline : newest first
GitLog(n) == [k \in 1..n |-> n + 1 - k]

\* how many commits of the author the source branch may hold
LogSizes(source) == IF source = "main" THEN 0..MaxCommits ELSE 0..1

\* The working tree git runs in (cp.worktree): per file its path, the two
\* status letters of `git status --porcelain` and its text, line by line;
\* continues, aborts and skips count the runs of `git cherry-pick
\* --continue`, `--abort` and `--skip`.
CleanTree ==
  [files |-> << >>, picking |-> FALSE,
   continues |-> 0, aborts |-> 0, skips |-> 0]

\* The scenario repository of the search example.
ScenarioChars == {"f", "i", "x", "X"}

ScenarioCommits ==
  << [SHA |-> <<"a", "1">>, Message |-> <<"f","i","x"," ","b","u","g">>,
      Full |-> <<"a","1"," ","f","i","x"," ","b","u","g">>,
      Date |-> 1, Author |-> <<"X", "i">>, FilesChanged |-> << >>,
      AlreadyApplied |-> FALSE],
     [SHA |-> <<"b", "2">>,
      Message |-> <<"a","d","d"," ","f","e","a","t","u","r","e">>,
      Full |-> <<"b","2"," ","a","d","d"," ","f","e","a","t","u","r","e">>,
      Date |-> 2, Author |-> <<"A", "n", "n">>,
      FilesChanged |-> << <<"i", "f", ".", "c">> >>,
      AlreadyApplied |-> FALSE],
     [SHA |-> <<"c", "3">>,
      Message |-> <<"f","i","x","u","p"," ","t","y","p","o">>,
      Full |-> <<"c","3"," ","f","i","x","u","p"," ","t","y","p","o">>,
      Date |-> 3, Author |-> <<"B", "o">>,
      FilesChanged |-> << <<"d","o","c",".","m","d">> >>,
      AlreadyApplied |-> TRUE] >>

\* getCommitDetails + quickCheckAlreadyApplied for one line of git log
getCommitDetails(i, target, source) ==
  [SHA |-> ShaOf(i), Message |-> MessageOf(i),
   Full |-> ShaOf(i) \o <<" ">> \o MessageOf(i),
   Date |-> i, Author |-> <<"Q">>, FilesChanged |-> FilesOf(i),
   AlreadyApplied |-> IsAncestor(i, target, source)]

\* --------------------------------------------------------------- selection
getSelectedSHAs(s) ==
  SelectSeq([k \in 1..Len(s.commits) |-> s.commits[k].SHA],
            LAMBDA sha : sha \in s.selected)

\* cp.selected[sha] = !cp.selected[sha]
FlipSelected(sel, sha) ==
  IF sha \in sel THEN sel \ {sha} ELSE sel \cup {sha}

\* ------------------------------------------------------------------- range
selectRange(s) ==
  LET start == Min(s.rangeStart, s.rangeEnd)
      end   == IF s.rangeStart > s.rangeEnd THEN s.rangeStart ELSE s.rangeEnd
      n     == Len(s.commits)
  IN  IF start < 0
      THEN [s EXCEPT !.panicked = TRUE]
      ELSE [s EXCEPT !.selected = s.selected \cup
              { At(s.commits, i).SHA : i \in
                  { j \in start..Min(end, n - 1) :
                      j >= 0 /\ ~At(s.commits, j).AlreadyApplied } }]

toggleRangeSelection(s) ==
  IF ~s.rangeSelection
  THEN [s EXCEPT !.rangeSelection = TRUE,
                 !.rangeStart = s.currentIndex,
                 !.rangeEnd = s.currentIndex]
  ELSE LET t == selectRange(s) IN
       IF t.panicked THEN t ELSE [t EXCEPT !.rangeSelection = FALSE]

updateRangeEnd(s) ==
  IF s.rangeSelection THEN [s EXCEPT !.rangeEnd = s.currentIndex] ELSE s

isInRange(s, index) ==
  /\ s.rangeSelection
  /\ index >= Min(s.rangeStart, s.rangeEnd)
  /\ index <= (IF s.rangeStart > s.rangeEnd THEN s.rangeStart ELSE s.rangeEnd)

\* ------------------------------------------------------------------- order
\* toggleCommitOrder without the cursor remap
toggleCommitOrderKeepIndex(s) ==
  [s EXCEPT !.commits = Reverse(s.commits), !.reverse = ~s.reverse]

\* toggleCommitOrder that puts the cursor back at the top
toggleCommitOrderResetCursor(s) ==
  [s EXCEPT !.commits = Reverse(s.commits), !.currentIndex = 0,
            !.reverse = ~s.reverse]

\* toggleCommitOrder that reverses the list and leaves the flag
toggleCommitOrderKeepFlag(s) ==
  [s EXCEPT !.commits = Reverse(s.commits),
            !.currentIndex = Len(s.commits) - 1 - s.currentIndex]

toggleCommitOrder(s) ==
  LET n  == Len(s.commits)
      rs == n - 1 - s.rangeStart
      re == n - 1 - s.rangeEnd
  IN  [s EXCEPT !.commits = Reverse(s.commits),
                !.currentIndex = n - 1 - s.currentIndex,
                !.rangeStart = IF s.rangeSelection THEN Min(rs, re)
                               ELSE s.rangeStart,
                !.rangeEnd = IF s.rangeSelection
                             THEN (IF rs > re THEN rs ELSE re)
                             ELSE s.rangeEnd,
                !.reverse = ~s.reverse]

\* ------------------------------------------------------------------ search
\* commitMatchesSearch comparing the fields as they are (no ToLower)
commitMatchesSearchCaseSensitive(commit, query) ==
  \/ Contains(commit.Message, query) \/ Contains(commit.Full, query)
  \/ Contains(commit.SHA, query) \/ Contains(commit.Author, query)
  \/ \E k \in 1..Len(commit.FilesChanged) :
        Contains(commit.FilesChanged[k], query)

commitMatchesSearch(commit, query) ==
  IF Contains(ToLower(commit.Message), query) THEN TRUE
  ELSE IF Contains(ToLower(commit.Full), query) THEN TRUE
  ELSE IF Contains(ToLower(commit.SHA), query) THEN TRUE
  ELSE IF Contains(ToLower(commit.Author), query) THEN TRUE
  ELSE \E k \in 1..Len(commit.FilesChanged) :
          Contains(ToLower(commit.FilesChanged[k]), query)

Indices(n) == [k \in 1..n |-> k - 1]

\* updateSearchResults that leaves the filter nil for the empty query
updateSearchResultsEmptyNil(s) ==
  [s EXCEPT
     !.filteredCommits =
        IF s.searchQuery = << >> THEN << >>
        ELSE SelectSeq(Indices(Len(s.commits)),
               LAMBDA i : commitMatchesSearch(At(s.commits, i),
                                              ToLower(s.searchQuery))),
     !.currentIndex = 0]

updateSearchResults(s) ==
  [s EXCEPT
     !.filteredCommits =
        IF s.searchQuery = << >>
        THEN Indices(Len(s.commits))
        ELSE SelectSeq(Indices(Len(s.commits)),
               LAMBDA i : commitMatchesSearch(At(s.commits, i),
                                              ToLower(s.searchQuery))),
     !.currentIndex = 0]

\* toggleSearchMode whose exit branch forgets to drop the query and filter
toggleSearchModeKeepFilter(s) ==
  IF ~s.searchMode
  THEN updateSearchResults([s EXCEPT !.searchMode = TRUE,
                                     !.searchQuery = << >>])
  ELSE [s EXCEPT !.searchMode = FALSE]

toggleSearchMode(s) ==
  IF ~s.searchMode
  THEN updateSearchResults([s EXCEPT !.searchMode = TRUE,
                                     !.searchQuery = << >>])
  ELSE [s EXCEPT !.searchMode = FALSE,
                 !.searchQuery = << >>,
                 !.filteredCommits = << >>,
                 !.currentIndex =
                    LET c == IF s.currentIndex >= Len(s.commits)
                             THEN Len(s.commits) - 1 ELSE s.currentIndex
                    IN  IF c < 0 THEN 0 ELSE c]

getVisibleCommits(s) ==
  IF ~s.searchMode \/ Len(s.filteredCommits) = 0
  THEN s.commits
  ELSE LET ok == SelectSeq(s.filteredCommits,
                           LAMBDA index : index < Len(s.commits))
       IN  [k \in 1..Len(ok) |-> At(s.commits, ok[k])]

\* The slot of cp.commits the returned pointer refers to, NilCommit for nil,
\* PanicSlot when the index expression panics (a negative index passes the
\* `<` tests of the code).
getCurrentCommit(s) ==
  IF s.searchMode /\ Len(s.filteredCommits) > 0
  THEN IF s.currentIndex < Len(s.filteredCommits)
       THEN IF s.currentIndex < 0 THEN PanicSlot
            ELSE LET realIndex == At(s.filteredCommits, s.currentIndex) IN
                 IF realIndex < Len(s.commits) THEN realIndex ELSE NilCommit
       ELSE NilCommit
  ELSE IF s.currentIndex < Len(s.commits)
       THEN IF s.currentIndex < 0 THEN PanicSlot ELSE s.currentIndex
       ELSE NilCommit

getMaxIndex(s) ==
  IF s.searchMode THEN Len(s.filteredCommits) - 1 ELSE Len(s.commits) - 1

\* ----------------------------------------------------------------- preview
DiffOf(sha) == <<"diff", sha>>
StatsOf(sha) == <<"stats", sha>>
ErrDiff == <<"Error loading diff: ">>
ErrStats == <<"Error loading stats: ">>

\* a load whose two parts fail together
loadPreviewDataAllOrNothing(s, commit, diffOk, statsOk) ==
  [s EXCEPT !.previewCommit = commit,
            !.previewDiff = IF diffOk /\ statsOk
                            THEN DiffOf(At(s.commits, commit).SHA)
                            ELSE ErrDiff,
            !.previewStats = IF diffOk /\ statsOk
                             THEN StatsOf(At(s.commits, commit).SHA)
                             ELSE ErrStats]

\* diffOk, statsOk: whether `git show` succeeded for the two fetches
loadPreviewData(s, commit, diffOk, statsOk) ==
  [s EXCEPT !.previewCommit = commit,
            !.previewDiff = IF diffOk THEN DiffOf(At(s.commits, commit).SHA)
                            ELSE ErrDiff,
            !.previewStats = IF statsOk THEN StatsOf(At(s.commits, commit).SHA)
                             ELSE ErrStats]

togglePreviewMode(s, diffOk, statsOk) ==
  IF ~s.previewMode
  THEN LET commit == getCurrentCommit(s) IN
       IF commit = PanicSlot
       THEN [s EXCEPT !.previewMode = TRUE, !.panicked = TRUE]
       ELSE IF commit # NilCommit
            THEN loadPreviewData([s EXCEPT !.previewMode = TRUE],
                                 commit, diffOk, statsOk)
            ELSE [s EXCEPT !.previewMode = TRUE]
  ELSE [s EXCEPT !.previewMode = FALSE,
                 !.previewCommit = NilCommit,
                 !.previewDiff = << >>,
                 !.previewStats = << >>]

updatePreview(s, diffOk, statsOk) ==
  IF s.previewMode
  THEN LET commit == getCurrentCommit(s) IN
       IF commit = PanicSlot THEN [s EXCEPT !.panicked = TRUE]
       ELSE IF /\ commit # NilCommit
               /\ \/ s.previewCommit = NilCommit
                  \/ At(s.commits, s.previewCommit).SHA
                       # At(s.commits, commit).SHA
            THEN loadPreviewData(s, commit, diffOk, statsOk)
            ELSE s
  ELSE s

\* ------------------------------------------------------------------ reload
\* logOk: the source ref resolved and git log ran; n: lines of its output
getUniqueCommits(s, logOk, n) ==
  IF ~logOk THEN s
  ELSE LET listed == s.commits \o
                     [k \in 1..n |->
                        getCommitDetails(GitLog(n)[k], s.config.TargetBranch,
                                         s.config.SourceBranch)]
       IN  [s EXCEPT !.commits = IF ~s.reverse THEN Reverse(listed)
                                 ELSE listed,
                     !.currentIndex = 0]

reloadCommits(s, logOk, n) ==
  getUniqueCommits([s EXCEPT !.commits = << >>,
                             !.selected = {},
                             !.currentIndex = 0,
                             !.filteredCommits = << >>,
                             !.searchQuery = << >>,
                             !.searchMode = FALSE,
                             !.previewMode = FALSE,
                             !.previewCommit = NilCommit],
                   logOk, n)

\* ----------------------------------------------------------- branch switch
\* listOk: whether `git branch` succeeded; the list is Branches
\* a load that leaves the cursor where it is
loadAvailableBranchesNoDefault(s, listOk) ==
  IF ~listOk THEN [s EXCEPT !.availableBranches = << >>]
  ELSE [s EXCEPT !.availableBranches = Branches]

loadAvailableBranches(s, listOk) ==
  IF ~listOk THEN [s EXCEPT !.availableBranches = << >>]
  ELSE LET currentBranch == IF s.branchSwitchType = "target"
                            THEN s.config.TargetBranch
                            ELSE s.config.SourceBranch
           hits == { i \in 0..(Len(Branches) - 1) :
                       At(Branches, i) = currentBranch }
       IN  [s EXCEPT !.availableBranches = Branches,
                     !.branchIndex =
                        IF hits = {} THEN s.branchIndex
                        ELSE CHOOSE i \in hits : \A j \in hits : i <= j]

enterBranchMode(s, switchType, listOk) ==
  loadAvailableBranches([s EXCEPT !.branchMode = TRUE,
                                  !.branchSwitchType = switchType,
                                  !.branchIndex = 0],
                        listOk)

\* leaving the session and sending the list cursor home
exitBranchModeResetCursor(s) ==
  [s EXCEPT !.branchMode = FALSE,
            !.branchSwitchType = "",
            !.availableBranches = << >>,
            !.branchIndex = 0,
            !.currentIndex = 0]

exitBranchMode(s) ==
  [s EXCEPT !.branchMode = FALSE,
            !.branchSwitchType = "",
            !.availableBranches = << >>,
            !.branchIndex = 0]

\* the state selectBranch leaves; selectBranchFails tells whether it
\* returned an error
selectBranchFails(s, logOk) ==
  s.branchIndex >= Len(s.availableBranches) \/ ~logOk

selectBranch(s, logOk, n) ==
  IF s.branchIndex >= Len(s.availableBranches) THEN s
  ELSE LET selectedBranch == At(s.availableBranches, s.branchIndex)
           t == IF s.branchSwitchType = "target"
                THEN [s EXCEPT !.config.TargetBranch = selectedBranch]
                ELSE [s EXCEPT !.config.SourceBranch = selectedBranch]
       IN  reloadCommits(exitBranchMode(t), logOk, n)

\* ----------------------------------------------------------- conflict mode
\* file texts, one token per line
ConflictText == <<"<<<<<<<", "ours", "=======", "theirs", ">>>>>>>">>
CleanText == <<"ours">>
Texts == {ConflictText, CleanText}

\* status letters a file of the interrupted cherry-pick can show
FileStatuses == {"UU", "AA", "M "}

PathOf(i) == <<"f", ToString(i)>>

isConflictStatus(status) ==
  status \in {"UU", "AA", "DD", "AU", "UA", "DU", "UD"}

\* a file as git leaves it: Text is the file in the working tree, Staged the
\* text the index holds for it (none while the file is unmerged)
TreeFile(path, status, text) ==
  [Path |-> path, Status |-> status, Text |-> text,
   Staged |-> IF isConflictStatus(status) THEN << >> ELSE text]

getConflictDescription(status) ==
  CASE status = "UU" -> "Both modified (merge conflict)"
    [] status = "AA" -> "Both added (merge conflict)"
    [] status = "DD" -> "Both deleted"
    [] status = "AU" -> "Added by us, modified by them"
    [] status = "UA" -> "Modified by us, added by them"
    [] status = "DU" -> "Deleted by us, modified by them"
    [] status = "UD" -> "Modified by us, deleted by them"
    [] OTHER -> "Unknown conflict type"

\* statusOk: whether `git status --porcelain` ran
hasConflicts(s, statusOk) ==
  /\ statusOk
  /\ \E k \in 1..Len(s.worktree.files) :
       s.worktree.files[k].Status \in {"UU", "AA", "DD", "AU", "UA", "DU", "UD"}

hasConflictMarkers(text) ==
  \/ Contains(text, <<"<<<<<<<">>)
  \/ Contains(text, <<"=======">>)
  \/ Contains(text, <<">>>>>>>">>)

\* catOk: whether the files could be read
getConflictedFiles(s, catOk) ==
  LET listed == SelectSeq(s.worktree.files,
                          LAMBDA f : isConflictStatus(f.Status))
  IN  [k \in 1..Len(listed) |->
         [Path |-> listed[k].Path, Status |-> listed[k].Status,
          Description |-> getConflictDescription(listed[k].Status),
          HasConflicts |-> catOk /\ hasConflictMarkers(listed[k].Text)]]

loadConflictFiles(s, statusOk, catOk) ==
  [s EXCEPT !.conflictFiles =
     IF statusOk THEN getConflictedFiles(s, catOk) ELSE << >>]

enterConflictMode(s, commit, statusOk, catOk) ==
  loadConflictFiles([s EXCEPT !.conflictMode = TRUE,
                              !.conflictCommit = commit,
                              !.conflictResolved = FALSE],
                    statusOk, catOk)

exitConflictMode(s) ==
  [s EXCEPT !.conflictMode = FALSE, !.conflictCommit = << >>,
            !.conflictFiles = << >>, !.conflictResolved = FALSE]

Unmerged(tree) ==
  \E k \in 1..Len(tree.files) : isConflictStatus(tree.files[k].Status)

\* what `git cherry-pick --continue` leaves: the commit is made and the tree
\* is clean when it succeeds (it cannot with unmerged files), nothing
\* changes when it fails
gitContinue(tree, gitOk) ==
  IF gitOk /\ ~Unmerged(tree) /\ tree.picking
  THEN [tree EXCEPT !.files = << >>, !.picking = FALSE,
                    !.continues = tree.continues + 1]
  ELSE [tree EXCEPT !.continues = tree.continues + 1]

\* `git cherry-pick --abort` and `--skip`: the cherry-pick in progress is
\* dropped and the tree is clean when the command succeeds
gitDrop(tree, gitOk) ==
  IF gitOk /\ tree.picking
  THEN [tree EXCEPT !.files = << >>, !.picking = FALSE]
  ELSE tree

abortConflictResolution(s, gitOk) ==
  [s EXCEPT !.worktree =
     [gitDrop(s.worktree, gitOk) EXCEPT !.aborts = s.worktree.aborts + 1]]

skipConflictResolution(s, gitOk) ==
  [s EXCEPT !.worktree =
     [gitDrop(s.worktree, gitOk) EXCEPT !.skips = s.worktree.skips + 1]]

\* err of the two: the command failed
dropErr(s, gitOk) == ~(gitOk /\ s.worktree.picking)

\* continueConflictResolution: the record after it, err = unmerged files
\* were seen and git was not run, or `git cherry-pick --continue` failed
\* (it fails as well when no cherry-pick is in progress)
continueErr(s, statusOk, gitOk) ==
  \/ hasConflicts(s, statusOk)
  \/ ~(gitOk /\ ~Unmerged(s.worktree) /\ s.worktree.picking)

continueConflictResolution(s, statusOk, gitOk) ==
  IF hasConflicts(s, statusOk) THEN s
  ELSE [s EXCEPT !.worktree = gitContinue(s.worktree, gitOk)]

\* the continue that leaves the session whatever the outcome
conflictContinueAlwaysExit(s, statusOk, gitOk, reloadOk, catOk) ==
  exitConflictMode(continueConflictResolution(s, statusOk, gitOk))

\* case "c", "4"
conflictContinue(s, statusOk, gitOk, reloadOk, catOk) ==
  LET t == continueConflictResolution(s, statusOk, gitOk) IN
  IF continueErr(s, statusOk, gitOk)
  THEN loadConflictFiles(t, reloadOk, catOk)
  ELSE exitConflictMode(t)

\* case "a", "3"
conflictAbort(s, gitOk) ==
  LET t == abortConflictResolution(s, gitOk) IN
  IF ~dropErr(s, gitOk) THEN exitConflictMode(t) ELSE t

\* case "s", "2"
conflictSkip(s, gitOk) ==
  LET t == skipConflictResolution(s, gitOk) IN
  IF ~dropErr(s, gitOk) THEN exitConflictMode(t) ELSE t

\* resolveConflictWithStrategy on file k of the tree: "edit" leaves any
\* text; "merge" (git mergetool) any text, staged or not; "add" stages the
\* file with the text it has; "ours" and "theirs" (git checkout --ours /
\* --theirs) write one side's text, without markers, over an unmerged file,
\* and the staged text over a file that is not unmerged
resolveConflictWithStrategy(s, k, strategy, text, staged) ==
  LET file == s.worktree.files[k] IN
  CASE strategy = "edit" ->
         [s EXCEPT !.worktree.files[k].Text = text]
    [] strategy = "merge" ->
         [s EXCEPT !.worktree.files[k] =
            IF staged
            THEN [file EXCEPT !.Text = text, !.Status = "M ", !.Staged = text]
            ELSE [file EXCEPT !.Text = text]]
    [] strategy \in {"ours", "theirs"} ->
         [s EXCEPT !.worktree.files[k].Text =
            IF isConflictStatus(file.Status) THEN CleanText ELSE file.Staged]
    [] strategy = "add" ->
         [s EXCEPT !.worktree.files[k] =
            [file EXCEPT !.Status = "M ", !.Staged = file.Text]]
    [] OTHER -> s

\* ------------------------------------------------------------- author mode
\* git log --format=%an of the source branch, duplicates removed; the
\* branch may hold no commit at all
Authors == <<"you", "me">>
AuthorLists == {Authors, << >>}

\* the page step of the author list
authorPageJump == 10

\* listOk: whether getAvailableAuthors succeeded, authors: what it read
enterAuthorMode(s, listOk, authors) ==
  LET loaded == IF Len(s.availableAuthors) = 0
                THEN IF listOk THEN authors ELSE <<s.authorName>>
                ELSE s.availableAuthors
      hits == { i \in 0..(Len(loaded) - 1) : At(loaded, i) = s.selectedAuthor }
  IN  [s EXCEPT !.authorMode = TRUE,
                !.availableAuthors = loaded,
                !.authorIndex =
                   IF hits = {} THEN 0
                   ELSE CHOOSE i \in hits : \A j \in hits : i <= j]

exitAuthorMode(s) == [s EXCEPT !.authorMode = FALSE, !.authorIndex = 0]

\* the letters of an author's name, and the letters an author query is
\* typed from
AuthorText(a) ==
  IF a = "you" THEN <<"y", "o", "u">>
  ELSE IF a = "me" THEN <<"m", "e">>
  ELSE <<"n", "e", "w">>
AuthorChars == {"M", "y"}

\* The author search, after the commit search: the filter is the list of
\* the names that contain the query, whatever their case.
updateAuthorSearchResults(s) ==
  [s EXCEPT
     !.filteredAuthors =
        IF s.authorSearchQuery = << >> THEN s.availableAuthors
        ELSE SelectSeq(s.availableAuthors,
               LAMBDA a : Contains(ToLower(AuthorText(a)),
                                   ToLower(s.authorSearchQuery))),
     !.authorIndex = 0]

toggleAuthorSearchMode(s) ==
  IF ~s.authorSearchMode
  THEN updateAuthorSearchResults([s EXCEPT !.authorSearchMode = TRUE,
                                           !.authorSearchQuery = << >>])
  ELSE [s EXCEPT !.authorSearchMode = FALSE,
                 !.authorSearchQuery = << >>,
                 !.filteredAuthors = << >>,
                 !.authorIndex =
                    LET c == IF s.authorIndex >= Len(s.availableAuthors)
                             THEN Len(s.availableAuthors) - 1
                             ELSE s.authorIndex
                    IN  IF c < 0 THEN 0 ELSE c]

\* the list the author screen shows: the filter while an author search with
\* results is in force, every author otherwise
getVisibleAuthors(s) ==
  IF ~s.authorSearchMode \/ Len(s.filteredAuthors) = 0
  THEN s.availableAuthors
  ELSE s.filteredAuthors

\* the state selectAuthor leaves; selectAuthorFails tells whether it
\* returned an error
selectAuthorFails(s, logOk) ==
  s.authorIndex >= Len(s.availableAuthors) \/ ~logOk

selectAuthor(s, logOk, n) ==
  IF s.authorIndex >= Len(s.availableAuthors) THEN s
  ELSE IF s.authorIndex < 0 THEN [s EXCEPT !.panicked = TRUE]
  ELSE reloadCommits(
         exitAuthorMode([s EXCEPT !.selectedAuthor =
                           At(s.availableAuthors, s.authorIndex)]),
         logOk, n)

\* handleAuthorInput, case " "
authorSelect(s, logOk, n) ==
  LET t == selectAuthor(s, logOk, n) IN
  IF t.panicked THEN t
  ELSE IF selectAuthorFails(s, logOk) THEN exitAuthorMode(t)
  ELSE t

authorDown(s) ==
  IF s.authorIndex < Len(getVisibleAuthors(s)) - 1
  THEN [s EXCEPT !.authorIndex = s.authorIndex + 1]
  ELSE s

authorUp(s) ==
  IF s.authorIndex > 0
  THEN [s EXCEPT !.authorIndex = s.authorIndex - 1]
  ELSE s

authorPageDown(s) ==
  LET maxIndex == Len(getVisibleAuthors(s)) - 1
      c == s.authorIndex + authorPageJump
  IN  [s EXCEPT !.authorIndex = IF c > maxIndex THEN maxIndex ELSE c]

authorPageUp(s) ==
  LET c == s.authorIndex - authorPageJump IN
  [s EXCEPT !.authorIndex = IF c < 0 THEN 0 ELSE c]

\* handleAuthorInput, case "r"
authorRefresh(s, listOk, authors) ==
  IF listOk THEN [s EXCEPT !.availableAuthors = authors] ELSE s

\* tickMsg
tick(s) == [s EXCEPT !.cursorBlink = ~s.cursorBlink]

\* -------------------------------------------------------------------- View
\* View is called by the event loop after every Update; the list screen
\* clamps cp.currentIndex while paginating.
View(s) ==
  IF \/ s.quitting \/ s.panicked \/ s.previewMode
     \/ s.conflictMode \/ s.branchMode \/ s.authorMode
  THEN s
  ELSE IF s.searchMode /\ Len(s.filteredCommits) = 0 /\ s.searchQuery # << >>
  THEN s
  ELSE LET n == Len(getVisibleCommits(s)) IN
       IF n > maxCommitsPerPage
       THEN [s EXCEPT !.currentIndex =
               LET c == IF s.currentIndex >= n THEN n - 1 ELSE s.currentIndex
               IN  IF c < 0 THEN 0 ELSE c]
       ELSE s

\* ------------------------------------------------- Update: default handler
quit(s) == [s EXCEPT !.quitting = TRUE]

\* the toggle without the AlreadyApplied test
toggleAtCursorAnyCommit(s) ==
  LET commit == getCurrentCommit(s) IN
  IF commit = PanicSlot THEN [s EXCEPT !.panicked = TRUE]
  ELSE IF commit # NilCommit
       THEN [s EXCEPT !.selected =
               FlipSelected(s.selected, At(s.commits, commit).SHA)]
       ELSE s

\* a toggle that marks the commit and never unmarks it
toggleAtCursorSelectOnly(s) ==
  LET commit == getCurrentCommit(s) IN
  IF commit = PanicSlot THEN [s EXCEPT !.panicked = TRUE]
  ELSE IF commit # NilCommit /\ ~At(s.commits, commit).AlreadyApplied
       THEN [s EXCEPT !.selected =
               s.selected \cup {At(s.commits, commit).SHA}]
       ELSE s

\* case "enter", " " (and tea.KeyTab in handleSearchInput)
toggleAtCursor(s) ==
  LET commit == getCurrentCommit(s) IN
  IF commit = PanicSlot THEN [s EXCEPT !.panicked = TRUE]
  ELSE IF commit # NilCommit /\ ~At(s.commits, commit).AlreadyApplied
       THEN [s EXCEPT !.selected =
               FlipSelected(s.selected, At(s.commits, commit).SHA)]
       ELSE s

\* the move down without the test against getMaxIndex
moveDownUnclamped(s, diffOk, statsOk) ==
  updatePreview(
    updateRangeEnd([s EXCEPT !.currentIndex = s.currentIndex + 1]),
    diffOk, statsOk)

moveDown(s, diffOk, statsOk) ==
  LET maxIndex == getMaxIndex(s) IN
  IF s.currentIndex < maxIndex /\ maxIndex >= 0
  THEN updatePreview(
         updateRangeEnd([s EXCEPT !.currentIndex = s.currentIndex + 1]),
         diffOk, statsOk)
  ELSE s

moveUp(s, diffOk, statsOk) ==
  IF s.currentIndex > 0
  THEN updatePreview(
         updateRangeEnd([s EXCEPT !.currentIndex = s.currentIndex - 1]),
         diffOk, statsOk)
  ELSE s

pageDown(s, diffOk, statsOk) ==
  LET maxIndex == getMaxIndex(s)
      c == s.currentIndex + pageJump
  IN  IF maxIndex >= 0
      THEN updatePreview(
             updateRangeEnd([s EXCEPT !.currentIndex =
                               IF c > maxIndex THEN maxIndex ELSE c]),
             diffOk, statsOk)
      ELSE s

pageUp(s, diffOk, statsOk) ==
  LET c == s.currentIndex - pageJump IN
  updatePreview(
    updateRangeEnd([s EXCEPT !.currentIndex = IF c < 0 THEN 0 ELSE c]),
    diffOk, statsOk)

\* case "a"
selectAllVisible(s) ==
  LET visibleCommits == getVisibleCommits(s) IN
  [s EXCEPT !.selected = s.selected \cup
     { visibleCommits[k].SHA : k \in
         { j \in 1..Len(visibleCommits) :
             ~visibleCommits[j].AlreadyApplied } }]

\* a clear that unmarks only the commits of the kept filter
clearAllFilteredOnly(s) ==
  [s EXCEPT !.selected =
     IF Len(s.filteredCommits) = 0 THEN {}
     ELSE s.selected \
            { At(s.commits, s.filteredCommits[k]).SHA :
                k \in 1..Len(s.filteredCommits) }]

\* case "c"
clearAll(s) == [s EXCEPT !.selected = {}]

\* case "i"
requestRebase(s) ==
  IF Len(getSelectedSHAs(s)) > 0
  THEN [s EXCEPT !.rebaseRequested = TRUE, !.quitting = TRUE]
  ELSE s

\* the request without the test for a selection
requestExecuteUnguarded(s) ==
  [s EXCEPT !.executeRequested = TRUE, !.quitting = TRUE]

\* case "e", "x"
requestExecute(s) ==
  IF Len(getSelectedSHAs(s)) > 0
  THEN [s EXCEPT !.executeRequested = TRUE, !.quitting = TRUE]
  ELSE s

\* ------------------------------------------------------- handleSearchInput
searchEnter(s) ==
  [s EXCEPT !.searchMode = FALSE,
            !.filteredCommits = IF Len(s.filteredCommits) = 0 THEN << >>
                                ELSE s.filteredCommits]

searchBackspace(s) ==
  IF Len(s.searchQuery) > 0
  THEN updateSearchResults(
         [s EXCEPT !.searchQuery =
            SubSeq(s.searchQuery, 1, Len(s.searchQuery) - 1)])
  ELSE s

searchUp(s, diffOk, statsOk) ==
  IF s.currentIndex > 0
  THEN updatePreview([s EXCEPT !.currentIndex = s.currentIndex - 1],
                     diffOk, statsOk)
  ELSE s

searchDown(s, diffOk, statsOk) ==
  IF s.currentIndex < getMaxIndex(s)
  THEN updatePreview([s EXCEPT !.currentIndex = s.currentIndex + 1],
                     diffOk, statsOk)
  ELSE s

searchChar(s, ch) ==
  updateSearchResults([s EXCEPT !.searchQuery = s.searchQuery \o <<ch>>])

\* ------------------------------------------------------- handleBranchInput
branchEnter(s, logOk, n) ==
  IF selectBranchFails(s, logOk)
  THEN exitBranchMode(selectBranch(s, logOk, n))
  ELSE selectBranch(s, logOk, n)

branchDown(s) ==
  IF s.branchIndex < Len(s.availableBranches) - 1
  THEN [s EXCEPT !.branchIndex = s.branchIndex + 1]
  ELSE s

branchUp(s) ==
  IF s.branchIndex > 0
  THEN [s EXCEPT !.branchIndex = s.branchIndex - 1]
  ELSE s

\* ------------------------------------------------------------ after the loop
\* interactiveRebase: the commit whose parent `git rebase -i` starts from
interactiveRebase(shas) == shas[Len(shas)]

\* What git and the configuration answer to cherryPick.  checkoutOk: `git
\* checkout` of the target branch succeeds; pickOk: the `git cherry-pick`
\* run succeeds; autoPush: config.Behavior.AutoPush; pushOk: `git push`
\* succeeds.
RunAnswers ==
  [checkoutOk : BOOLEAN, pickOk : BOOLEAN, autoPush : BOOLEAN,
   pushOk : BOOLEAN]

\* cherryPick: after the checkout, one `git cherry-pick` run with every sha
\* as argument (replayed, replayCalls), then the push when it is configured
cherryPick(s, shas, git) ==
  IF ~git.checkoutOk THEN [s EXCEPT !.replayError = "failed to checkout"]
  ELSE LET t == [s EXCEPT !.replayed = shas,
                          !.replayCalls = s.replayCalls + 1]
       IN  IF ~git.pickOk THEN [t EXCEPT !.replayError = "cherry-pick failed"]
           ELSE IF git.autoPush /\ ~git.pushOk
           THEN [t EXCEPT !.replayError = "failed to push"]
           ELSE t

\* The trees a failed `git cherry-pick` may leave: nothing to merge, or files
\* in any status.
PickTrees ==
  { [files |-> fs, picking |-> TRUE, continues |-> 0, aborts |-> 0,
     skips |-> 0] :
      fs \in {<< >>} \cup
             { <<TreeFile(PathOf(1), st, tx)>> :
                 st \in FileStatuses, tx \in Texts } }

\* What git answers during a replay of n commits.  checkoutOk: `git
\* checkout` of the target branch succeeds; pickOk[k]: `git cherry-pick` of
\* the k-th sha succeeds; tree: what a failed pick leaves; statusOk, loadOk:
\* the `git status` of hasConflicts and of getConflictedFiles succeed;
\* catOk: the files can be read; autoPush: config.Behavior.AutoPush;
\* pushOk: `git push` succeeds.
PickAnswers(n) ==
  [checkoutOk : BOOLEAN, pickOk : [1..n -> BOOLEAN], tree : PickTrees,
   statusOk : BOOLEAN, loadOk : BOOLEAN, catOk : BOOLEAN,
   autoPush : BOOLEAN, pushOk : BOOLEAN]

\* the loop of cherryPickWithConflictHandling from commit i on, and the
\* push that follows it when every pick succeeded
RECURSIVE pickEach(_, _, _, _)
pickEach(s, shas, i, git) ==
  IF i > Len(shas)
  THEN IF git.autoPush /\ ~git.pushOk
       THEN [s EXCEPT !.replayError = "failed to push"]
       ELSE s
  ELSE LET t == [s EXCEPT !.replayed = Append(s.replayed, shas[i]),
                          !.replayCalls = s.replayCalls + 1]
       IN  IF git.pickOk[i]
           THEN pickEach(t, shas, i + 1, git)
           ELSE LET u == [t EXCEPT !.worktree = git.tree] IN
                IF hasConflicts(u, git.statusOk)
                THEN [enterConflictMode(u, shas[i], git.loadOk, git.catOk)
                        EXCEPT !.replayError = "conflict"]
                ELSE [u EXCEPT !.replayError = "cherry-pick failed"]

cherryPickWithConflictHandling(s, shas, git) ==
  IF ~git.checkoutOk THEN [s EXCEPT !.replayError = "failed to checkout"]
  ELSE pickEach(s, shas, 1, git)

\* main, once p.Run() has returned
mainAfterLoop(s, git) ==
  LET selectedSHAs == getSelectedSHAs(s)
      t == [s EXCEPT !.exited = TRUE]
  IN  IF ~s.quitting
      THEN IF Len(selectedSHAs) = 0 THEN t
           ELSE cherryPick(t, selectedSHAs, git)
      ELSE t

\* ------------------------------------------------------------- editor mode
\* The editor choice of a conflict session.  handleEditorInput is in the
\* source; enterEditorMode, exitEditorMode and selectEditor are not, and
\* follow the specification: opening lists the editors found and puts the
\* cursor on the first, choosing launches the editor under the cursor and
\* returns to the conflict session, leaving returns to it as well.
Editors == <<"vim", "nano">>
EditorLists == {Editors, << >>}

enterEditorMode(s, editors) ==
  [s EXCEPT !.editorMode = TRUE, !.availableEditors = editors,
            !.editorIndex = 0]

\* as exitBranchMode: the list is dropped, opening lists the editors again
exitEditorMode(s) ==
  [s EXCEPT !.editorMode = FALSE, !.availableEditors = << >>,
            !.editorIndex = 0]

\* launchOk: the editor could be started
selectEditorFails(s, launchOk) ==
  s.editorIndex >= Len(s.availableEditors) \/ ~launchOk

selectEditor(s, launchOk) ==
  IF selectEditorFails(s, launchOk) THEN s ELSE exitEditorMode(s)

EditorKeys == {"q", "esc", "enter", "down", "up"}

handleEditorInput(s, key, launchOk) ==
  CASE key = "q" -> quit(s)
    [] key = "esc" -> exitEditorMode(s)
    [] key = "enter" ->
         IF selectEditorFails(s, launchOk)
         THEN exitEditorMode(selectEditor(s, launchOk))
         ELSE selectEditor(s, launchOk)
    [] key = "down" ->
         IF s.editorIndex < Len(s.availableEditors) - 1
         THEN [s EXCEPT !.editorIndex = s.editorIndex + 1]
         ELSE s
    [] key = "up" ->
         IF s.editorIndex > 0
         THEN [s EXCEPT !.editorIndex = s.editorIndex - 1]
         ELSE s
    [] OTHER -> s

\* ----------------------------------------------------------------- routing
\* Update, tea.KeyMsg: which handler receives the key
\* a routing that tests the conflict flag without its editor sub-flag
RouteWithoutEditor(s) ==
  IF s.searchMode THEN "search"
  ELSE IF s.conflictMode THEN "conflict"
  ELSE IF s.branchMode THEN "branch"
  ELSE IF s.authorMode THEN "author"
  ELSE "default"

Route(s) ==
  IF s.searchMode THEN "search"
  ELSE IF s.conflictMode
       THEN (IF s.editorMode THEN "editor" ELSE "conflict")
  ELSE IF s.branchMode THEN "branch"
  ELSE IF s.authorMode THEN "author"
  ELSE "default"

\* The event loop hands messages to Update until the quit message that a
\* handler asked for is delivered (exited) or a handler panics.  A handler
\* that sets cp.quitting only asks for it: messages that were queued before
\* the quit message are still handled, and no handler tests cp.quitting.
Running(s) == ~s.exited /\ ~s.panicked

\* -------------------------------------------------------------------- Init
\* main: the struct literal, then setup (getUniqueCommits); the UI starts
\* only when at least one commit was found.
NewCherryPicker(reverse) ==
  [commits |-> << >>, selected |-> {}, currentIndex |-> 0,
   quitting |-> FALSE, panicked |-> FALSE, reverse |-> reverse,
   config |-> [TargetBranch |-> "dev", SourceBranch |-> "main"],
   rangeSelection |-> FALSE, rangeStart |-> 0, rangeEnd |-> 0,
   rebaseRequested |-> FALSE, executeRequested |-> FALSE,
   searchMode |-> FALSE, searchQuery |-> << >>, filteredCommits |-> << >>,
   previewMode |-> FALSE, previewCommit |-> NilCommit,
   previewDiff |-> << >>, previewStats |-> << >>,
   branchMode |-> FALSE, branchSwitchType |-> "",
   availableBranches |-> << >>, branchIndex |-> 0,
   cursorBlink |-> TRUE,
   authorName |-> "me", selectedAuthor |-> "me",
   availableAuthors |-> << >>, authorMode |-> FALSE, authorIndex |-> 0,
   exited |-> FALSE, replayed |-> << >>, replayCalls |-> 0,
   replayError |-> "",
   authorSearchMode |-> FALSE, authorSearchQuery |-> << >>,
   filteredAuthors |-> << >>,
   conflictMode |-> FALSE, conflictCommit |-> << >>,
   conflictFiles |-> << >>, conflictResolved |-> FALSE,
   editorMode |-> FALSE, availableEditors |-> << >>, editorIndex |-> 0,
   worktree |-> CleanTree]

Init ==
  \E reverse \in BOOLEAN, n \in 1..MaxCommits :
    cp = getUniqueCommits(NewCherryPicker(reverse), TRUE, n)

\* DefaultConfig: DefaultReverse = false
InitOrder ==
  \E n \in 1..MaxOrderCommits :
    cp = getUniqueCommits(NewCherryPicker(FALSE), TRUE, n)

InitScenario ==
  cp = [NewCherryPicker(FALSE) EXCEPT !.commits = ScenarioCommits]

\* ----------------------------------------------------------------- actions
InDefault == Running(cp) /\ Route(cp) = "default"
InSearch == Running(cp) /\ Route(cp) = "search"
InBranch == Running(cp) /\ Route(cp) = "branch"

KeyQuit == InDefault /\ cp' = View(quit(cp))
KeyToggle == InDefault /\ cp' = View(toggleAtCursor(cp))
KeyDown ==
  InDefault /\ \E diffOk, statsOk \in BOOLEAN :
    cp' = View(moveDown(cp, diffOk, statsOk))
KeyUp ==
  InDefault /\ \E diffOk, statsOk \in BOOLEAN :
    cp' = View(moveUp(cp, diffOk, statsOk))
KeyPageDown ==
  InDefault /\ \E diffOk, statsOk \in BOOLEAN :
    cp' = View(pageDown(cp, diffOk, statsOk))
KeyPageUp ==
  InDefault /\ \E diffOk, statsOk \in BOOLEAN :
    cp' = View(pageUp(cp, diffOk, statsOk))
KeySearch == InDefault /\ cp' = View(toggleSearchMode(cp))
KeyBranch ==
  InDefault /\ \E switchType \in {"target", "source"}, listOk \in BOOLEAN :
    cp' = View(enterBranchMode(cp, switchType, listOk))
KeyPreview ==
  InDefault /\ \E diffOk, statsOk \in BOOLEAN :
    cp' = View(togglePreviewMode(cp, diffOk, statsOk))
KeyAuthor ==
  InDefault /\ \E listOk \in BOOLEAN, authors \in AuthorLists :
    cp' = View(enterAuthorMode(cp, listOk, authors))
KeyRange == InDefault /\ cp' = View(toggleRangeSelection(cp))
\* the range bounds are unbounded Go ints: toggles that would carry an open
\* range further than RangeDrift outside the list are not explored
RangeWithin(s) ==
  \A b \in {s.rangeStart, s.rangeEnd} :
    -RangeDrift <= b /\ b < Len(s.commits) + RangeDrift
KeyOrder ==
  InDefault /\ RangeWithin(toggleCommitOrder(cp))
            /\ cp' = View(toggleCommitOrder(cp))
KeySelectAll == InDefault /\ cp' = View(selectAllVisible(cp))
KeyClearAll == InDefault /\ cp' = View(clearAll(cp))
KeyRebase == InDefault /\ cp' = View(requestRebase(cp))
KeyExecute == InDefault /\ cp' = View(requestExecute(cp))

SearchCtrlC == InSearch /\ cp' = View(quit(cp))
SearchEsc == InSearch /\ cp' = View(toggleSearchMode(cp))
SearchEnter == InSearch /\ cp' = View(searchEnter(cp))
SearchBackspace == InSearch /\ cp' = View(searchBackspace(cp))
SearchUp ==
  InSearch /\ \E diffOk, statsOk \in BOOLEAN :
    cp' = View(searchUp(cp, diffOk, statsOk))
SearchDown ==
  InSearch /\ \E diffOk, statsOk \in BOOLEAN :
    cp' = View(searchDown(cp, diffOk, statsOk))
SearchTab == InSearch /\ cp' = View(toggleAtCursor(cp))
SearchType ==
  InSearch /\ Len(cp.searchQuery) < MaxQuery /\ \E ch \in Chars :
    cp' = View(searchChar(cp, ch))

\* handleAuthorInput hands every key to handleAuthorSearchInput while the
\* author search is open
InAuthor == Running(cp) /\ Route(cp) = "author" /\ ~cp.authorSearchMode
InAuthorSearch == Running(cp) /\ Route(cp) = "author" /\ cp.authorSearchMode
AuthorQuit == InAuthor /\ cp' = View(quit(cp))
AuthorEsc == InAuthor /\ cp' = View(exitAuthorMode(cp))
AuthorSelect ==
  InAuthor /\ \E logOk \in BOOLEAN, n \in 0..MaxSwitchCommits :
    /\ n \in LogSizes(cp.config.SourceBranch)
    /\ cp' = View(authorSelect(cp, logOk, n))
AuthorDown == InAuthor /\ cp' = View(authorDown(cp))
AuthorUp == InAuthor /\ cp' = View(authorUp(cp))
AuthorPageDown == InAuthor /\ cp' = View(authorPageDown(cp))
AuthorPageUp == InAuthor /\ cp' = View(authorPageUp(cp))
AuthorRefresh ==
  InAuthor /\ \E listOk \in BOOLEAN, authors \in AuthorLists :
    cp' = View(authorRefresh(cp, listOk, authors))
AuthorSlash == InAuthor /\ cp' = View(toggleAuthorSearchMode(cp))
AuthorSearchCtrlC == InAuthorSearch /\ cp' = View(quit(cp))
AuthorSearchEsc == InAuthorSearch /\ cp' = View(toggleAuthorSearchMode(cp))
AuthorSearchEnter ==
  InAuthorSearch /\ cp' = View([cp EXCEPT !.authorSearchMode = FALSE])
AuthorSearchBackspace ==
  /\ InAuthorSearch
  /\ cp' = View(IF Len(cp.authorSearchQuery) > 0
                THEN updateAuthorSearchResults(
                       [cp EXCEPT !.authorSearchQuery =
                          SubSeq(cp.authorSearchQuery, 1,
                                 Len(cp.authorSearchQuery) - 1)])
                ELSE cp)
AuthorSearchUp == InAuthorSearch /\ cp' = View(authorUp(cp))
AuthorSearchDown == InAuthorSearch /\ cp' = View(authorDown(cp))
AuthorSearchSelect ==
  InAuthorSearch /\ \E logOk \in BOOLEAN, n \in 0..MaxSwitchCommits :
    /\ n \in LogSizes(cp.config.SourceBranch)
    /\ cp' = View(authorSelect(cp, logOk, n))
AuthorSearchType ==
  /\ InAuthorSearch /\ Len(cp.authorSearchQuery) < MaxAuthorQuery
  /\ \E ch \in AuthorChars :
       cp' = View(updateAuthorSearchResults(
                    [cp EXCEPT !.authorSearchQuery = Append(@, ch)]))
\* the blink timer fires whatever the mode
Tick == Running(cp) /\ cp' = View(tick(cp))

InConflict == Running(cp) /\ Route(cp) = "conflict"
InEditor == Running(cp) /\ Route(cp) = "editor"
ConflictQuit == InConflict /\ cp' = View(quit(cp))
\* handleConflictInput, case "1"
ConflictEditor ==
  InConflict /\ \E editors \in EditorLists :
    cp' = View(enterEditorMode(cp, editors))
EditorKey ==
  InEditor /\ \E key \in EditorKeys, launchOk \in BOOLEAN :
    cp' = View(handleEditorInput(cp, key, launchOk))
ConflictEsc == InConflict /\ cp' = View(exitConflictMode(cp))
ConflictContinue ==
  /\ InConflict
  /\ cp.worktree.continues < MaxContinues
  /\ \E statusOk, gitOk, reloadOk, catOk \in BOOLEAN :
       cp' = View(conflictContinue(cp, statusOk, gitOk, reloadOk, catOk))
ConflictAbort ==
  /\ InConflict
  /\ cp.worktree.aborts + cp.worktree.skips < MaxDrops
  /\ \E gitOk \in BOOLEAN : cp' = View(conflictAbort(cp, gitOk))
ConflictSkip ==
  /\ InConflict
  /\ cp.worktree.aborts + cp.worktree.skips < MaxDrops
  /\ \E gitOk \in BOOLEAN : cp' = View(conflictSkip(cp, gitOk))
ConflictRefresh ==
  InConflict /\ \E statusOk, catOk \in BOOLEAN :
    cp' = View(loadConflictFiles(cp, statusOk, catOk))
\* the operator resolves a file outside the key loop
ResolveFile ==
  /\ InConflict
  /\ \E k \in 1..Len(cp.worktree.files), text \in Texts,
        strategy \in {"edit", "merge", "ours", "add"},
        staged \in BOOLEAN :
       cp' = resolveConflictWithStrategy(cp, k, strategy, text, staged)

BranchQuit == InBranch /\ cp' = View(quit(cp))
BranchEsc == InBranch /\ cp' = View(exitBranchMode(cp))
\* max: the most commits the reload may list
BranchEnterUpTo(max) ==
  InBranch /\ \E logOk \in BOOLEAN, n \in 0..max :
    /\ n \in LogSizes(selectBranch(cp, TRUE, 0).config.SourceBranch)
    /\ cp' = View(branchEnter(cp, logOk, n))
BranchEnter == BranchEnterUpTo(MaxCommits)
BranchDown == InBranch /\ cp' = View(branchDown(cp))
BranchUp == InBranch /\ cp' = View(branchUp(cp))
BranchRefresh ==
  InBranch /\ \E listOk \in BOOLEAN :
    cp' = View(loadAvailableBranches(cp, listOk))

\* The browsing session: every key of the default, search and branch
\* handlers except those that end the program.
Next ==
  \/ KeyToggle \/ KeyDown \/ KeyUp \/ KeyPageDown \/ KeyPageUp
  \/ KeySearch \/ KeyBranch \/ KeyRange \/ KeyOrder
  \/ KeySelectAll \/ KeyClearAll
  \/ SearchEsc \/ SearchEnter \/ SearchBackspace
  \/ SearchUp \/ SearchDown \/ SearchTab \/ SearchType
  \/ BranchEsc \/ BranchEnter \/ BranchDown \/ BranchUp \/ BranchRefresh

Spec == Init /\ [][Next]_vars

\* The quit message a handler asked for is delivered: p.Run() returns and
\* main goes on after the loop.
MainAfterLoop ==
  /\ cp.quitting /\ ~cp.panicked /\ ~cp.exited
  /\ \E git \in RunAnswers : cp' = mainAfterLoop(cp, git)

\* Selecting in the default, search and branch handlers together with the
\* keys that end the program and the delivery of the quit message; keys are
\* still handled between a request and that delivery.
NextAll ==
  \/ KeyToggle \/ KeyDown \/ KeyUp \/ KeySelectAll \/ KeyClearAll
  \/ KeySearch \/ SearchEsc \/ SearchEnter \/ SearchType \/ SearchTab
  \/ KeyBranch \/ BranchEsc
  \/ KeyQuit \/ KeyRebase \/ KeyExecute \/ SearchCtrlC \/ BranchQuit
  \/ MainAfterLoop

SpecAll == Init /\ [][NextAll]_vars

\* a whole run: selecting in either order, then q, i or e, then the rest of
\* main
NextRun ==
  \/ KeyToggle \/ KeyDown \/ KeyUp \/ KeyOrder \/ KeySelectAll
  \/ KeyQuit \/ KeyRebase \/ KeyExecute
  \/ MainAfterLoop

SpecRun == Init /\ [][NextRun]_vars

\* The replay of the selection, commit by commit.  No code in src/ calls
\* cherryPickWithConflictHandling: the step applies it once to a selection
\* made in the list, as main applies cherryPick.
Replay ==
  /\ InDefault /\ cp.replayCalls = 0 /\ cp.replayError = ""
  /\ Len(getSelectedSHAs(cp)) > 0
  /\ \E git \in PickAnswers(Len(getSelectedSHAs(cp))) :
       cp' = cherryPickWithConflictHandling(cp, getSelectedSHAs(cp), git)

NextReplay ==
  \/ KeyToggle \/ KeyDown \/ KeyUp \/ KeyOrder \/ KeySelectAll
  \/ Replay

SpecReplay == Init /\ [][NextReplay]_vars

\* cursor, order and range keys only, on lists of up to MaxOrderCommits
NextOrder ==
  \/ KeyToggle \/ KeyDown \/ KeyUp \/ KeyPageDown \/ KeyPageUp
  \/ KeyRange \/ KeyOrder

SpecOrder == InitOrder /\ [][NextOrder]_vars

\* the search handler on the scenario repository
ScenarioType ==
  InSearch /\ Len(cp.searchQuery) < MaxScenarioQuery
           /\ \E ch \in ScenarioChars : cp' = View(searchChar(cp, ch))

NextSearch ==
  \/ KeySearch \/ SearchEsc \/ SearchEnter \/ SearchBackspace
  \/ SearchUp \/ SearchDown \/ SearchTab \/ ScenarioType

SpecSearch == InitScenario /\ [][NextSearch]_vars

\* the keys that open and close the modes, on lists of up to MaxModeCommits

InitModes ==
  \E n \in 1..MaxModeCommits :
    cp = getUniqueCommits(NewCherryPicker(FALSE), TRUE, n)

NextModes ==
  \/ KeyPreview \/ KeySearch \/ KeyBranch \/ KeyAuthor
  \/ KeyDown \/ KeyUp \/ KeyToggle
  \/ SearchEsc \/ SearchEnter \/ SearchType \/ SearchBackspace
  \/ BranchEsc \/ BranchDown \/ BranchUp
  \/ AuthorEsc \/ AuthorQuit
  \/ Tick \/ MainAfterLoop

SpecModes == InitModes /\ [][NextModes]_vars

\* The switch sessions: branch and author keys, with the keys that build the
\* state a reload resets.
InitSwitch ==
  \E n \in 1..MaxSwitchCommits :
    cp = getUniqueCommits(NewCherryPicker(FALSE), TRUE, n)

NextSwitch ==
  \/ KeyBranch \/ BranchEsc \/ BranchEnterUpTo(MaxSwitchCommits)
  \/ BranchDown \/ BranchUp \/ BranchRefresh
  \/ KeyAuthor \/ AuthorEsc \/ AuthorSelect \/ AuthorDown \/ AuthorUp
  \/ AuthorPageDown \/ AuthorPageUp \/ AuthorRefresh
  \/ KeyToggle \/ KeyDown \/ KeyPreview
  \/ KeySearch \/ SearchType \/ SearchEnter

SpecSwitch == InitSwitch /\ [][NextSwitch]_vars

\* The confirm of a switch session, from the branch list, the author list
\* and the author search, over a store with a selection, a moved cursor, an
\* open preview and a search.
NextConfirm ==
  \/ KeyBranch \/ BranchDown \/ BranchEnterUpTo(MaxSwitchCommits)
  \/ KeyAuthor \/ AuthorSelect
  \/ AuthorSlash \/ AuthorSearchType \/ AuthorSearchSelect
  \/ KeyToggle \/ KeyDown \/ KeyPreview
  \/ KeySearch \/ SearchType \/ SearchEnter

SpecConfirm == InitSwitch /\ [][NextConfirm]_vars

\* Switch sessions opened, browsed and cancelled.  The configured branches and the user's name
\* need not be among the candidates: the checked-out branch is not listed,
\* and the user may have no commit on the source branch.
InitOpen ==
  \E n \in 1..MaxSwitchCommits, target \in {"dev", "old"},
     source \in {"main", "old"}, name \in {"me", "new"} :
    cp = getUniqueCommits(
           [NewCherryPicker(FALSE) EXCEPT
              !.config = [TargetBranch |-> target, SourceBranch |-> source],
              !.authorName = name, !.selectedAuthor = name],
           TRUE, n)

NextOpen ==
  \/ KeyBranch \/ BranchEsc \/ BranchDown \/ BranchUp \/ BranchRefresh
  \/ KeyAuthor \/ AuthorEsc \/ AuthorDown \/ AuthorUp \/ AuthorPageDown
  \/ AuthorPageUp \/ AuthorRefresh
  \/ KeyToggle \/ KeyDown \/ KeyRange
  \/ KeySearch \/ SearchType \/ SearchEnter

SpecOpen == InitOpen /\ [][NextOpen]_vars

\* The author session with its search.
NextAuthorSearch ==
  \/ KeyAuthor \/ AuthorEsc \/ AuthorSelect \/ AuthorDown \/ AuthorUp
  \/ AuthorRefresh \/ AuthorSlash
  \/ AuthorSearchEsc \/ AuthorSearchEnter \/ AuthorSearchBackspace
  \/ AuthorSearchUp \/ AuthorSearchDown \/ AuthorSearchSelect
  \/ AuthorSearchType \/ AuthorSearchCtrlC
  \/ KeyDown \/ KeyToggle \/ MainAfterLoop

SpecAuthorSearch == InitSwitch /\ [][NextAuthorSearch]_vars

\* The conflict session: cherryPickWithConflictHandling stopped on a commit
\* with hasConflicts() true and called enterConflictMode.
InitConflict ==
  \E n \in 1..MaxConflictFiles :
    \E st \in [1..n -> FileStatuses], tx \in [1..n -> Texts],
       statusOk, catOk \in BOOLEAN :
      LET tree == [files |-> [k \in 1..n |->
                                TreeFile(PathOf(k), st[k], tx[k])],
                   picking |-> TRUE,
                   continues |-> 0, aborts |-> 0, skips |-> 0]
          base == getUniqueCommits(NewCherryPicker(FALSE), TRUE, 1)
          s == [base EXCEPT !.selected = {base.commits[1].SHA},
                            !.worktree = tree]
      IN  /\ Unmerged(tree)
          /\ cp = enterConflictMode(s, base.commits[1].SHA, statusOk, catOk)

NextConflict ==
  \/ ConflictEsc \/ ConflictContinue \/ ConflictAbort \/ ConflictSkip
  \/ ConflictRefresh \/ ConflictQuit \/ ResolveFile
  \/ ConflictEditor \/ EditorKey \/ MainAfterLoop

SpecConflict == InitConflict /\ [][NextConflict]_vars

\* Every way into and out of a mode: search, the two switch sessions with
\* the author search, and the conflict session with its editor choice,
\* entered by a replay from the list.
NextRoute ==
  \/ KeyToggle \/ KeyDown
  \/ KeySearch \/ SearchEsc \/ SearchEnter \/ SearchType
  \/ KeyBranch \/ BranchEsc \/ BranchEnterUpTo(MaxModeCommits)
  \/ KeyAuthor \/ AuthorEsc \/ AuthorSelect
  \/ AuthorSlash \/ AuthorSearchEsc \/ AuthorSearchSelect
  \/ Replay
  \/ ConflictEsc \/ ConflictAbort \/ ConflictQuit
  \/ ConflictEditor \/ EditorKey
  \/ MainAfterLoop

SpecRoute == InitModes /\ [][NextRoute]_vars

\* ================================================================== claims
ViewLength(s) == IF s.searchMode THEN Len(s.filteredCommits) ELSE Len(s.commits)

IsSelected(s, k) == s.commits[k].SHA \in s.selected

\* C1: in every reachable state no commit whose AlreadyApplied is true is
\* marked selected.
NoAppliedCommitSelected ==
  \A k \in 1..Len(cp.commits) :
    cp.commits[k].AlreadyApplied => ~IsSelected(cp, k)

\* an applied commit sits between two selected ones
AppliedSkippedWitness ==
  /\ Len(cp.commits) = 3
  /\ cp.commits[2].AlreadyApplied
  /\ IsSelected(cp, 1) /\ IsSelected(cp, 3)
  /\ cp.currentIndex = 1

\* C2 as stated: with a non-empty commit sequence the cursor is always in
\* the interval [0, viewLength-1].
CursorInViewInterval ==
  Len(cp.commits) > 0 =>
    0 <= cp.currentIndex /\ cp.currentIndex <= ViewLength(cp) - 1

\* C2 as amended: with a non-empty commit sequence the cursor is in
\* [0, viewLength-1] whenever the view is non-empty, and is 0 when the
\* filtered view is empty.
CursorWithinView ==
  Len(cp.commits) > 0 =>
    IF ViewLength(cp) > 0
    THEN 0 <= cp.currentIndex /\ cp.currentIndex <= ViewLength(cp) - 1
    ELSE cp.currentIndex = 0

\* the cursor has been moved to the last row of a filtered view that is
\* shorter than the list
CursorAtEndOfFilterWitness ==
  /\ cp.searchMode
  /\ Len(cp.filteredCommits) = 2 /\ Len(cp.commits) = 3
  /\ cp.currentIndex = 1

\* C3: in every reachable state the cursor is 0 when the view is empty and
\* within [0, viewLength) otherwise; it is never negative.
CursorValidOrZero ==
  IF ViewLength(cp) = 0
  THEN cp.currentIndex = 0
  ELSE 0 <= cp.currentIndex /\ cp.currentIndex < ViewLength(cp)

\* C4: a toggle-order on n commits with a valid cursor c reverses the
\* sequence, sets the cursor to n-1-c, and the cursor targets the same
\* commit as before.
OrderToggleKeepsTarget ==
  [][ ( /\ KeyOrder
        /\ 0 <= cp.currentIndex /\ cp.currentIndex < Len(cp.commits) )
      => /\ cp'.commits = Reverse(cp.commits)
         /\ cp'.currentIndex = Len(cp.commits) - 1 - cp.currentIndex
         /\ getCurrentCommit(cp') >= 0
         /\ At(cp'.commits, getCurrentCommit(cp'))
              = At(cp.commits, getCurrentCommit(cp)) ]_vars

\* four commits toggled once from the default order, cursor on index 2,
\* which holds the second-oldest commit (formerly at index 1)
OrderToggledWitness ==
  /\ Len(cp.commits) = 4 /\ cp.reverse
  /\ cp.currentIndex = 2
  /\ At(cp.commits, 2).Date = 2

\* C5: two toggle-orders in a row give back the commit sequence, the cursor
\* and the order flag, and leave the selection as it was.
ToggleOrderTwiceRestores ==
  InDefault =>
    LET t == View(toggleCommitOrder(View(toggleCommitOrder(cp)))) IN
    /\ t.commits = cp.commits
    /\ t.currentIndex = cp.currentIndex
    /\ t.reverse = cp.reverse
    /\ t.selected = cp.selected

\* a list where one toggle moves the cursor and the order, with a selection
ToggleTwiceWitness ==
  /\ InDefault
  /\ Len(cp.commits) = 3 /\ cp.currentIndex = 2 /\ cp.selected # {}
  /\ toggleCommitOrder(cp).currentIndex = 0
  /\ toggleCommitOrder(cp).commits # cp.commits

\* C6: closing range-select adds to the selection exactly the non-applied
\* commits whose index lies in [min(start,end), max(start,end)] and changes
\* the selection of no other commit.
RangeSpan(s) ==
  { i \in 0..(Len(s.commits) - 1) :
      /\ Min(s.rangeStart, s.rangeEnd) <= i
      /\ i <= (IF s.rangeStart > s.rangeEnd THEN s.rangeStart ELSE s.rangeEnd) }

RangeCloseSelectsSpan ==
  [][ (KeyRange /\ cp.rangeSelection)
      => cp'.selected = cp.selected \cup
           { At(cp.commits, i).SHA :
               i \in { j \in RangeSpan(cp) :
                         ~At(cp.commits, j).AlreadyApplied } } ]_vars

\* C7: while range-select stays open, a cursor move or a toggle-order
\* leaves the anchor (rangeStart) on the same commit.
AnchorKeepsCommit ==
  [][ ( /\ KeyDown \/ KeyUp \/ KeyPageDown \/ KeyPageUp \/ KeyOrder
        /\ cp.rangeSelection
        /\ 0 <= cp.rangeStart /\ cp.rangeStart < Len(cp.commits) )
      => /\ cp'.rangeSelection
         /\ 0 <= cp'.rangeStart /\ cp'.rangeStart < Len(cp'.commits)
         /\ At(cp'.commits, cp'.rangeStart) = At(cp.commits, cp.rangeStart)
    ]_vars

\* C8: while range-select is open the floating end equals the cursor after
\* every input event.
RangeEndFollowsCursor ==
  cp.rangeSelection => cp.rangeEnd = cp.currentIndex

\* C9: after any change of the query to q in search mode, filteredCommits is
\* the ascending list of exactly the indices whose commit contains q,
\* ignoring case, in its summary, full line, id, author or a changed path.
FoldContains(field, q) ==
  \E k \in 0..(Len(field) - Len(q)) :
    \A j \in 1..Len(q) : ToLowerChar(field[k + j]) = ToLowerChar(q[j])

CommitFields(c) ==
  {c.Message, c.Full, c.SHA, c.Author}
    \cup { c.FilesChanged[k] : k \in 1..Len(c.FilesChanged) }

MatchesQuery(c, q) == \E field \in CommitFields(c) : FoldContains(field, q)

NoMatchViewEmpty ==
  ( /\ cp.searchMode
    /\ \A k \in 1..Len(cp.commits) : ~MatchesQuery(cp.commits[k], cp.searchQuery) )
  => /\ getVisibleCommits(cp) = << >>
     /\ getCurrentCommit(cp) = NilCommit
     /\ getMaxIndex(cp) = -1
     /\ cp.currentIndex = 0

\* C12: after Enter in search mode with a non-empty filter the filter stays
\* in force: the visible list, the cursor bound and the commit under the
\* cursor are the same as just before the exit.
ConfirmKeepsFilter ==
  (InSearch /\ Len(cp.filteredCommits) > 0) =>
    LET t == View(searchEnter(cp)) IN
    /\ getVisibleCommits(t) = getVisibleCommits(cp)
    /\ getMaxIndex(t) = getMaxIndex(cp)
    /\ getCurrentCommit(t) = getCurrentCommit(cp)
    /\ selectAllVisible(t).selected = selectAllVisible(cp).selected

CurrentViewIndices(s) ==
  IF Len(s.filteredCommits) > 0
  THEN { s.filteredCommits[k] : k \in 1..Len(s.filteredCommits) }
  ELSE 0..(Len(s.commits) - 1)

SelectAllRespectsView ==
  InDefault =>
    View(selectAllVisible(cp)).selected
      = cp.selected \cup
          { At(cp.commits, i).SHA :
              i \in { j \in CurrentViewIndices(cp) :
                        /\ j < Len(cp.commits)
                        /\ ~At(cp.commits, j).AlreadyApplied } }

\* C15: clear-all leaves no commit selected, whatever the view or filter.
ClearAllEmptiesSelection ==
  InDefault =>
    LET t == View(clearAll(cp)) IN
    /\ t.selected = {}
    /\ getSelectedSHAs(t) = << >>
    /\ \A k \in 1..Len(t.commits) : ~IsSelected(t, k)

\* a kept filter shows two of three commits while a commit it hides and a
\* commit it shows are both selected when clear-all is pressed
ClearWithHiddenSelectionWitness ==
  /\ InDefault
  /\ Len(cp.commits) = 3 /\ Len(cp.filteredCommits) = 2
  /\ \E k \in 1..3 : IsSelected(cp, k) /\ (k - 1) \notin CurrentViewIndices(cp)
  /\ \E k \in 1..3 : IsSelected(cp, k) /\ (k - 1) \in CurrentViewIndices(cp)

\* C16: a toggle at the cursor changes nothing when the commit under the
\* cursor is already applied; otherwise it flips that commit's mark and no
\* other, so a second toggle gives back the selection.
ToggleFlipsTargetOnly ==
  (Running(cp) /\ Route(cp) \in {"default", "search"}
               /\ getCurrentCommit(cp) >= 0) =>
    LET target == At(cp.commits, getCurrentCommit(cp))
        t == View(toggleAtCursor(cp))
    IN  /\ t = [cp EXCEPT !.selected = t.selected]
        /\ IF target.AlreadyApplied THEN t.selected = cp.selected
           ELSE /\ (target.SHA \in t.selected) = (target.SHA \notin cp.selected)
                /\ t.selected \ {target.SHA} = cp.selected \ {target.SHA}
                /\ View(toggleAtCursor(t)).selected = cp.selected

\* in search mode the cursor is on the second row of a two-row filter and
\* that commit carries a mark a toggle would remove
ToggleOnMarkedWitness ==
  /\ InSearch
  /\ Len(cp.filteredCommits) = 2 /\ cp.currentIndex = 1
  /\ getCurrentCommit(cp) >= 0
  /\ ~At(cp.commits, getCurrentCommit(cp)).AlreadyApplied
  /\ At(cp.commits, getCurrentCommit(cp)).SHA \in cp.selected

\* C17: a replay or rebase request sets its flag and ends the input loop
\* only when a commit is selected, changes nothing otherwise, and the two
\* flags are never both set.
RequestNeedsSelection ==
  /\ ~(cp.rebaseRequested /\ cp.executeRequested)
  /\ (cp.rebaseRequested \/ cp.executeRequested) => cp.quitting
  /\ InDefault =>
       LET e == View(requestExecute(cp))
           r == View(requestRebase(cp))
       IN  IF \E k \in 1..Len(cp.commits) : IsSelected(cp, k)
           THEN /\ e = [cp EXCEPT !.executeRequested = TRUE, !.quitting = TRUE]
                /\ r = [cp EXCEPT !.rebaseRequested = TRUE, !.quitting = TRUE]
           ELSE e = cp /\ r = cp

\* the replay was requested with two commits selected and the loop ended
ExecuteRequestedWitness ==
  /\ cp.executeRequested /\ cp.quitting /\ ~cp.rebaseRequested
  /\ Cardinality(cp.selected) = 2

\* C18: in every reachable state at most one of the conflict session, the
\* switch session (branch or author), the preview flag and the search flag
\* is active.
ActiveModes(s) ==
  { m \in {"conflict", "switch", "preview", "search"} :
      \/ m = "conflict" /\ s.conflictMode
      \/ m = "switch" /\ (s.branchMode \/ s.authorMode)
      \/ m = "preview" /\ s.previewMode
      \/ m = "search" /\ s.searchMode }

AtMostOneModeActive == Cardinality(ActiveModes(cp)) <= 1

\* C19: a continue requested while a listed file is still in conflict, or
\* whose git continue fails, leaves the session open on the same commit,
\* re-reads the conflicted files and does not end the input loop.
StillConflicted(s) ==
  \E k \in 1..Len(s.worktree.files) :
    /\ isConflictStatus(s.worktree.files[k].Status)
    /\ \E j \in 1..Len(s.conflictFiles) :
         s.conflictFiles[j].Path = s.worktree.files[k].Path

ContinueFailed ==
  /\ cp'.worktree.continues > cp.worktree.continues
  /\ cp'.worktree.picking

BlockedContinueStaysOpen ==
  [][ (ConflictContinue /\ (StillConflicted(cp) \/ ContinueFailed))
      => /\ cp'.conflictMode
         /\ cp'.conflictCommit = cp.conflictCommit
         /\ cp'.conflictCommit # << >>
         /\ cp'.quitting = cp.quitting /\ Running(cp')
         /\ \E statusOk, catOk \in BOOLEAN :
              cp'.conflictFiles
                = IF statusOk THEN getConflictedFiles(cp', catOk) ELSE << >>
    ]_vars

\* git continue was run once and failed; the session is still open on its
\* commit with a file listed
FailedContinueWitness ==
  /\ cp.conflictMode /\ cp.conflictCommit # << >>
  /\ cp.worktree.continues = 1 /\ cp.worktree.picking
  /\ Len(cp.conflictFiles) > 0

\* C20: git cherry-pick --continue is run, and the session resolved, only
\* when no file of the tree still contains conflict-marker text.
ContinueOnlyWithoutMarkers ==
  [][ ( /\ ConflictContinue
        /\ \E k \in 1..Len(cp.worktree.files) :
             hasConflictMarkers(cp.worktree.files[k].Text) )
      => /\ cp'.worktree.continues = cp.worktree.continues
         /\ cp'.conflictMode
    ]_vars

\* C21: an abort (a skip) request in an open conflict session runs git's
\* abort (skip) exactly once and ends the session, whatever git answers:
\* conflict mode is off, the commit and the file list are cleared.
DropEndsSession ==
  [][ (ConflictAbort \/ ConflictSkip)
      => /\ (cp'.worktree.aborts - cp.worktree.aborts)
              + (cp'.worktree.skips - cp.worktree.skips) = 1
         /\ ~cp'.conflictMode
         /\ cp'.conflictCommit = << >>
         /\ cp'.conflictFiles = << >>
    ]_vars

\* a fully reloaded store listing n commits: nothing selected, no search
\* flag, query or filter, no preview flag, previewed commit, cached diff or
\* cached stats, cursor 0
FreshStore(t, n) ==
  /\ Len(t.commits) = n
  /\ t.selected = {}
  /\ ~t.searchMode /\ t.searchQuery = << >> /\ t.filteredCommits = << >>
  /\ ~t.previewMode /\ t.previewCommit = NilCommit
  /\ t.previewDiff = << >> /\ t.previewStats = << >>
  /\ t.currentIndex = 0

\* the candidate a switch session's cursor is on: the cursor indexes the
\* list the screen shows
BranchAtCursor == At(cp.availableBranches, cp.branchIndex)
AuthorAtCursor == At(getVisibleAuthors(cp), cp.authorIndex)

\* the author session, its search open or not, with the cursor on a listed
\* candidate
OnAuthorCandidate ==
  /\ Running(cp) /\ Route(cp) = "author"
  /\ cp.authorIndex >= 0 /\ cp.authorIndex < Len(getVisibleAuthors(cp))

\* C22: a confirm on a valid candidate whose reload succeeds writes the
\* candidate at the cursor into the one configuration field the session is
\* about (target branch, source branch or author filter), keeps the two
\* others, closes the session, and leaves the store freshly loaded: nothing
\* selected, no search flag, query or filter, no preview flag and no cached
\* preview, cursor 0.
ConfirmOverwritesNamedField ==
  \A n \in 0..MaxSwitchCommits :
    /\ (InBranch /\ ~selectBranchFails(cp, TRUE))
       => LET t == View(branchEnter(cp, TRUE, n)) IN
          /\ t.config =
               IF cp.branchSwitchType = "target"
               THEN [cp.config EXCEPT !.TargetBranch = BranchAtCursor]
               ELSE [cp.config EXCEPT !.SourceBranch = BranchAtCursor]
          /\ t.selectedAuthor = cp.selectedAuthor
          /\ ~t.branchMode /\ ~t.authorMode
          /\ t.availableBranches = << >> /\ t.branchSwitchType = ""
          /\ FreshStore(t, n)
    /\ (OnAuthorCandidate /\ ~selectAuthorFails(cp, TRUE))
       => LET t == View(authorSelect(cp, TRUE, n)) IN
          /\ t.selectedAuthor = AuthorAtCursor
          /\ t.config = cp.config
          /\ ~t.branchMode /\ ~t.authorMode
          /\ FreshStore(t, n)

\* what a switch session is opened over: the configuration, the commit
\* sequence, the selection, the list cursor, the search and the range state
StoreFrame(s) ==
  <<s.config, s.selectedAuthor, s.commits, s.selected, s.currentIndex,
    s.searchMode, s.searchQuery, s.filteredCommits,
    s.rangeSelection, s.rangeStart, s.rangeEnd>>

\* C23: opening a branch or author session, moving or refreshing inside it
\* and leaving it with Esc each keep the configuration, the commits, the
\* selection, the list cursor, the search state and the range state, so a
\* cancelled session ends on the store it was opened over; the commits are
\* not reloaded.
CancelKeepsStore ==
  [][ ( \/ KeyBranch \/ BranchDown \/ BranchUp \/ BranchRefresh \/ BranchEsc
        \/ KeyAuthor \/ AuthorDown \/ AuthorUp \/ AuthorPageDown
        \/ AuthorPageUp \/ AuthorRefresh \/ AuthorEsc )
      => StoreFrame(cp') = StoreFrame(cp)
    ]_vars

\* a branch session, its cursor moved, over a store with a selection, a
\* kept query, an open range and a moved list cursor
CancelAfterNavigationWitness ==
  /\ InBranch /\ cp.branchIndex > 0
  /\ cp.selected # {}
  /\ cp.searchQuery # << >>
  /\ cp.rangeSelection
  /\ cp.currentIndex > 0

\* the first index of value in list, 0 when it does not occur
DefaultCursor(list, value) ==
  LET hits == { i \in 0..(Len(list) - 1) : At(list, i) = value } IN
  IF hits = {} THEN 0 ELSE CHOOSE i \in hits : \A j \in hits : i <= j

\* C24: the key that opens a switch session leaves the session's cursor on
\* the candidate equal to the configured value of the field being switched
\* when the loaded candidates hold that value, and on 0 otherwise, a failed
\* load included.
OpenCursorOnConfigured ==
  [][ /\ (KeyBranch =>
            cp'.branchIndex =
              DefaultCursor(cp'.availableBranches,
                            IF cp'.branchSwitchType = "target"
                            THEN cp.config.TargetBranch
                            ELSE cp.config.SourceBranch))
      /\ (KeyAuthor =>
            cp'.authorIndex =
              DefaultCursor(cp'.availableAuthors, cp.selectedAuthor))
    ]_vars

\* a session just opened with its cursor off 0, on the configured value
OpenedOnConfiguredWitness ==
  \/ /\ InBranch /\ cp.branchIndex > 0 /\ cp.branchSwitchType = "source"
     /\ At(cp.availableBranches, cp.branchIndex) = cp.config.SourceBranch
  \/ /\ InAuthor /\ cp.authorIndex > 0
     /\ At(cp.availableAuthors, cp.authorIndex) = cp.selectedAuthor

\* C25: a confirm in a switch session whose cursor is on no candidate (the
\* list is empty, its load failed, or the cursor is past its end) changes
\* nothing: the session stays open and the configuration, the commits and
\* the selection are as before.
InvalidConfirmRejected ==
  [][ /\ ( ( /\ BranchEnterUpTo(MaxSwitchCommits)
             /\ cp.branchIndex >= Len(cp.availableBranches) )
           => /\ cp'.branchMode
              /\ cp'.config = cp.config
              /\ cp'.commits = cp.commits
              /\ cp'.selected = cp.selected )
      /\ ( ( /\ AuthorSelect
             /\ ( \/ cp.authorIndex >= Len(cp.availableAuthors)
                  \/ cp.authorIndex < 0 ) )
           => /\ cp'.authorMode
              /\ cp'.selectedAuthor = cp.selectedAuthor
              /\ cp'.commits = cp.commits
              /\ cp'.selected = cp.selected )
    ]_vars

\* C26: the key that opens a switch session returns before the candidates
\* are there: the step that opens a branch session leaves the branch list
\* empty, and the step that opens an author session over an unloaded author
\* list leaves that list empty, to be filled by a later event.
OpenReturnsBeforeCandidates ==
  [][ /\ (KeyBranch => cp'.availableBranches = << >>)
      /\ ((KeyAuthor /\ cp.availableAuthors = << >>)
            => cp'.availableAuthors = << >>)
    ]_vars

\* the preview of state t holds commit, with the diff and the stats git
\* returned for it where the fetch succeeded and the error text where not
PreviewHolds(t, commit, diffOk, statsOk) ==
  LET sha == At(t.commits, commit).SHA IN
  /\ t.previewCommit = commit
  /\ t.previewDiff = IF diffOk THEN DiffOf(sha) ELSE ErrDiff
  /\ t.previewStats = IF statsOk THEN StatsOf(sha) ELSE ErrStats
  /\ DiffOf(sha) # ErrDiff /\ StatsOf(sha) # ErrStats

\* C27: a preview load, on opening the preview and on moving the cursor off
\* the previewed commit, fetches diff and stats independently: for each of the
\* four outcomes of the two fetches the part that succeeded is the text git
\* returned and the part that failed is an error string, the previewed
\* commit is the requested one, preview mode stays on and the program keeps
\* running.
PreviewPartsIndependent ==
  \A diffOk, statsOk \in BOOLEAN :
    /\ (InDefault /\ ~cp.previewMode /\ getCurrentCommit(cp) >= 0)
       => LET t == View(togglePreviewMode(cp, diffOk, statsOk)) IN
          /\ PreviewHolds(t, getCurrentCommit(cp), diffOk, statsOk)
          /\ t.previewMode /\ Running(t)
    /\ ( /\ InDefault /\ cp.previewMode
          /\ cp.currentIndex < getMaxIndex(cp)
          /\ cp.previewCommit = getCurrentCommit(cp) )
       => LET t == View(moveDown(cp, diffOk, statsOk)) IN
          /\ PreviewHolds(t, getCurrentCommit(t), diffOk, statsOk)
          /\ t.currentIndex = cp.currentIndex + 1
          /\ t.previewMode /\ Running(t)

\* an open preview whose diff fetch failed and whose stats fetch succeeded
HalfLoadedPreviewWitness ==
  /\ InDefault /\ cp.previewMode /\ cp.previewCommit >= 0
  /\ cp.previewDiff = ErrDiff
  /\ cp.previewStats = StatsOf(At(cp.commits, cp.previewCommit).SHA)

\* the handler the priority order switch session, conflict session, search,
\* default navigation names for state s
PrescribedHandler(s) ==
  IF s.branchMode THEN "branch"
  ELSE IF s.authorMode THEN "author"
  ELSE IF s.conflictMode
       THEN (IF s.editorMode THEN "editor" ELSE "conflict")
  ELSE IF s.searchMode THEN "search"
  ELSE "default"

\* the top-level mode flags that are set in state s
ModeFlags(s) ==
  { f \in {"search", "conflict", "branch", "author"} :
      \/ (f = "search" /\ s.searchMode)
      \/ (f = "conflict" /\ s.conflictMode)
      \/ (f = "branch" /\ s.branchMode)
      \/ (f = "author" /\ s.authorMode) }

\* C28: in every reachable state the one handler Update hands a key to is
\* the handler named by the priority order: an open switch session first,
\* else an open conflict session (the editor choice before the conflict
\* handler itself), else search, else the default handler.  Update tests
\* the flags in another order (search, conflict, branch, author); the two
\* orders name the same handler because at most one top-level flag is set,
\* and the editor flag is set only inside a conflict session.
RouteFollowsPriority ==
  /\ Route(cp) = PrescribedHandler(cp)
  /\ Cardinality(ModeFlags(cp)) <= 1
  /\ cp.editorMode => cp.conflictMode

\* the editor choice open inside a conflict session, both flags set: the
\* key goes to the editor handler, not to the conflict handler
RoutedToEditorWitness ==
  /\ Running(cp) /\ cp.conflictMode /\ cp.editorMode
  /\ Route(cp) = "editor" /\ Len(cp.availableEditors) > 0
  /\ cp.searchQuery # << >>

\* C29: while the preview is open and the view is not empty, the previewed
\* commit is the commit under the cursor and the cached diff and stats are
\* those of that commit (or the error text of a failed fetch), after every
\* input event.
PreviewFollowsCursor ==
  (Running(cp) /\ cp.previewMode /\ ViewLength(cp) > 0)
  => /\ cp.previewCommit >= 0
     /\ getCurrentCommit(cp) >= 0
     /\ LET sha == At(cp.commits, getCurrentCommit(cp)).SHA IN
        /\ At(cp.commits, cp.previewCommit).SHA = sha
        /\ cp.previewDiff \in {DiffOf(sha), ErrDiff}
        /\ cp.previewStats \in {StatsOf(sha), ErrStats}

\* C30: TAB pressed in search mode while the query matches no commit changes
\* the selection state of no commit.
TabOnEmptyViewSelectsNothing ==
  [][ ( /\ SearchTab
        /\ \A k \in 1..Len(cp.commits) :
             ~MatchesQuery(cp.commits[k], cp.searchQuery) )
      => cp'.selected = cp.selected
    ]_vars

\* C31: the key that opens search sets the search flag and keeps the cursor
\* index, the commit under the cursor and the selection.
SearchEntryKeepsCursor ==
  [][ KeySearch
      => /\ cp'.searchMode
         /\ cp'.currentIndex = cp.currentIndex
         /\ getCurrentCommit(cp') = getCurrentCommit(cp)
         /\ cp'.selected = cp.selected
    ]_vars

\* C32: a confirm in the author session sets the author filter to the name
\* shown at the cursor, the element at the cursor index of the visible
\* (filtered) author list.
ConfirmTakesVisibleAuthor ==
  [][ ( /\ (AuthorSearchSelect \/ AuthorSelect)
        /\ cp.authorIndex >= 0
        /\ cp.authorIndex < Len(getVisibleAuthors(cp)) )
      => cp'.selectedAuthor = At(getVisibleAuthors(cp), cp.authorIndex)
    ]_vars

\* the sha of the selected commit with the earliest date
OldestSelected(s) ==
  LET picked == { k \in 1..Len(s.commits) : IsSelected(s, k) }
      k0 == CHOOSE k \in picked :
              \A j \in picked : s.commits[k].Date <= s.commits[j].Date
  IN  s.commits[k0].SHA

\* C33: when a rebase has been requested, the commit whose parent the rebase
\* starts from is the oldest selected commit, in either order of the list.
RebaseStartsAtOldest ==
  (cp.rebaseRequested /\ Len(getSelectedSHAs(cp)) > 0)
  => interactiveRebase(getSelectedSHAs(cp)) = OldestSelected(cp)

\* C35: once main has run to its end, a loop ended by an execute request
\* has been followed by one replay of exactly the selected commits, and a
\* loop ended by a plain quit by none.
ReplayFollowsExecuteRequest ==
  cp.exited
  => /\ cp.executeRequested
          => (cp.replayCalls = 1 /\ cp.replayed = getSelectedSHAs(cp))
     /\ (~cp.executeRequested /\ ~cp.rebaseRequested) => cp.replayCalls = 0

\* the index of the first commit whose pick fails, 0 when none does
FirstFailure(pickOk, n) ==
  LET failing == { k \in 1..n : ~pickOk[k] } IN
  IF failing = {} THEN 0
  ELSE CHOOSE k \in failing : \A j \in failing : k <= j

\* the replay of the selection of cp under the given answers of git, and
\* what the stated contract requires of it
ReplayContract ==
  LET shas == getSelectedSHAs(cp) IN
  \A git \in PickAnswers(Len(shas)) :
    LET t == cherryPickWithConflictHandling(cp, shas, git)
        f == FirstFailure(git.pickOk, Len(shas))
    IN  git.checkoutOk =>
        /\ t.replayed = IF f = 0 THEN shas ELSE SubSeq(shas, 1, f)
        /\ t.replayCalls = Len(t.replayed)
        /\ t.conflictMode <=> (f > 0 /\ Unmerged(git.tree))
        /\ t.conflictMode => t.conflictCommit = shas[f]
        /\ (f > 0 /\ ~t.conflictMode) => t.replayError = "cherry-pick failed"
        /\ f = 0 => t.replayError = IF git.autoPush /\ ~git.pushOk
                                    THEN "failed to push" ELSE ""

\* C34: the replay picks the selected commits in order, one git run each,
\* up to and including the first that fails; it opens a conflict session on
\* that commit exactly when the failed pick left unmerged files, and reports
\* a hard failure otherwise.
ReplayStopsAtFirstFailure ==
  ( /\ InDefault /\ cp.replayCalls = 0 /\ cp.replayError = ""
    /\ Len(getSelectedSHAs(cp)) > 0 )
  => ReplayContract

\* ============================================================ the startup
\* branch selector (BranchSelector).  It is a program of its own: it runs
\* before the CherryPicker exists, so in SpecSelector the state variable
\* holds the selector's record.  `selected` is the map of the choices, with
\* "" for a key that is absent (a branch name is never empty); `quit` says
\* that Update returned tea.Quit, `returned` that the quit message was
\* delivered and p.Run() is over.
MaxBranchQuery == 1

BranchText(b) ==
  IF b = "dev" THEN <<"d", "e", "v">> ELSE <<"m", "a", "i", "n">>

\* the keys the selector is driven with; the one-letter ones can be typed
\* into the query
SelectorTyped == {"q", "/", " ", "M", "d"}
SelectorKeys == {"enter", "esc", "backspace", "up", "down"} \cup SelectorTyped

\* what `git branch` may list
SelectorLists == {Branches, <<"main">>, << >>}

NewBranchSelector ==
  [branches |-> << >>, filteredBranches |-> << >>, cursor |-> 0,
   selected |-> [source |-> "", target |-> ""], currentStep |-> "source",
   completed |-> FALSE, cancelled |-> FALSE, loading |-> TRUE,
   searchMode |-> FALSE, searchQuery |-> << >>, quit |-> FALSE,
   returned |-> FALSE]

updateFilteredBranches(bs) ==
  [bs EXCEPT
     !.filteredBranches =
        IF bs.searchQuery = << >> THEN bs.branches
        ELSE SelectSeq(bs.branches,
               LAMBDA b : Contains(ToLower(BranchText(b)),
                                   ToLower(bs.searchQuery)))]

\* the mutation of selectorChoose: the first choice leaves the cursor and
\* the search as they are
selectorChooseKeepSearch(bs) ==
  IF bs.cursor < Len(bs.filteredBranches)
  THEN LET c == [bs EXCEPT !.selected[bs.currentStep] =
                              At(bs.filteredBranches, bs.cursor)]
       IN  IF bs.currentStep = "source"
           THEN [c EXCEPT !.currentStep = "target"]
           ELSE [c EXCEPT !.completed = TRUE, !.quit = TRUE]
  ELSE bs

\* Update, case "enter", " " outside the search
selectorChoose(bs) ==
  IF bs.cursor < Len(bs.filteredBranches)
  THEN LET c == [bs EXCEPT !.selected[bs.currentStep] =
                              At(bs.filteredBranches, bs.cursor)]
       IN  IF bs.currentStep = "source"
           THEN updateFilteredBranches(
                  [c EXCEPT !.currentStep = "target", !.cursor = 0,
                            !.searchMode = FALSE, !.searchQuery = << >>])
           ELSE [c EXCEPT !.completed = TRUE, !.quit = TRUE]
  ELSE bs

\* Update, case branchesLoadedMsg
selectorLoaded(bs, ok, branches) ==
  IF ~ok
  THEN [bs EXCEPT !.loading = FALSE, !.branches = << >>,
                  !.filteredBranches = << >>]
  ELSE updateFilteredBranches(
         [bs EXCEPT !.loading = FALSE, !.branches = branches])

\* Update, case tea.KeyMsg
selectorKey(bs, key) ==
  IF bs.searchMode
  THEN CASE key = "enter" -> [bs EXCEPT !.searchMode = FALSE]
         [] key = "esc" ->
              [updateFilteredBranches(
                 [bs EXCEPT !.searchMode = FALSE, !.searchQuery = << >>])
               EXCEPT !.cursor = 0]
         [] key = "backspace" ->
              IF Len(bs.searchQuery) > 0
              THEN [updateFilteredBranches(
                      [bs EXCEPT !.searchQuery =
                          SubSeq(bs.searchQuery, 1, Len(bs.searchQuery) - 1)])
                    EXCEPT !.cursor = 0]
              ELSE bs
         [] OTHER ->
              IF key \in SelectorTyped
              THEN [updateFilteredBranches(
                      [bs EXCEPT !.searchQuery = Append(bs.searchQuery, key)])
                    EXCEPT !.cursor = 0]
              ELSE bs
  ELSE CASE key = "q" -> [bs EXCEPT !.cancelled = TRUE, !.quit = TRUE]
         [] key = "/" -> [bs EXCEPT !.searchMode = TRUE]
         [] key = "up" ->
              IF bs.cursor > 0 THEN [bs EXCEPT !.cursor = bs.cursor - 1]
              ELSE bs
         [] key = "down" ->
              IF bs.cursor < Len(bs.filteredBranches) - 1
              THEN [bs EXCEPT !.cursor = bs.cursor + 1]
              ELSE bs
         [] key \in {"enter", " "} -> selectorChoose(bs)
         [] OTHER -> bs

\* RunBranchSelector: the program handles the one branchesLoadedMsg that
\* Init asked for and the operator's keys, until the quit message that
\* Update asked for is delivered; Update itself tests neither completed nor
\* cancelled, so messages queued before the quit message are still handled.
SelectorLoaded ==
  /\ ~cp.returned /\ cp.loading
  /\ \E ok \in BOOLEAN, branches \in SelectorLists :
       cp' = selectorLoaded(cp, ok, branches)

SelectorKey ==
  /\ ~cp.returned
  /\ \E key \in SelectorKeys :
       /\ (cp.searchMode /\ key \in SelectorTyped)
             => Len(cp.searchQuery) < MaxBranchQuery
       /\ cp' = selectorKey(cp, key)

InitSelector == cp = NewBranchSelector

SelectorQuitMsg ==
  cp.quit /\ ~cp.returned /\ cp' = [cp EXCEPT !.returned = TRUE]

NextSelector == SelectorLoaded \/ SelectorKey \/ SelectorQuitMsg

SpecSelector == InitSelector /\ [][NextSelector]_vars

\* C36: the startup selector completes only after a source and then a
\* target were chosen, in that order; every choice is made after the
\* branches were loaded and is the loaded branch under the cursor of the
\* filtered list of that moment; completed and cancelled are never both
\* true; and the first choice puts the cursor on 0 and clears the query and
\* the filter.
SelectorChoice(k) == cp'.selected[k] # cp.selected[k]

SelectorChoosesInOrder ==
  [][ /\ \A k \in {"source", "target"} :
           SelectorChoice(k)
             => /\ ~cp.loading
                /\ k = cp.currentStep
                /\ cp.cursor < Len(cp.filteredBranches)
                /\ cp'.selected[k] = At(cp.filteredBranches, cp.cursor)
                /\ \E i \in 1..Len(cp.branches) :
                      cp.branches[i] = cp'.selected[k]
      /\ SelectorChoice("source")
           => /\ cp.selected.target = "" /\ ~SelectorChoice("target")
              /\ cp'.currentStep = "target"
              /\ cp'.cursor = 0 /\ cp'.searchQuery = << >>
              /\ ~cp'.searchMode
              /\ cp'.filteredBranches = cp'.branches
      /\ SelectorChoice("target") => cp.selected.source # ""
      /\ cp'.currentStep # cp.currentStep => SelectorChoice("source")
      /\ (cp'.completed /\ ~cp.completed) => SelectorChoice("target")
      /\ cp'.completed => (cp'.selected.source # "" /\ cp'.selected.target # "")
      /\ ~(cp'.completed /\ cp'.cancelled)
    ]_vars

SelectorCompletedWitness ==
  /\ cp.completed /\ ~cp.cancelled
  /\ cp.selected.source = "main" /\ cp.selected.target = "dev"
  /\ cp.branches = Branches

\* ---------------------------------------------------- the screen of View
\* View's early returns, in its order: the preview screen comes before the
\* conflict (or editor choice) and switch screens, and the search interface
\* is part of the list screen.
Screen(s) ==
  IF s.quitting THEN "none"
  ELSE IF s.previewMode THEN "preview"
  ELSE IF s.conflictMode
       THEN (IF s.editorMode THEN "editor" ELSE "conflict")
  ELSE IF s.branchMode THEN "branch"
  ELSE IF s.authorMode THEN "author"
  ELSE IF s.searchMode THEN "search"
  ELSE "default"

\* C37: whenever key input is routed to the search, branch-switch,
\* author-switch or conflict handler, View renders that mode's screen, not
\* the preview screen or another mode's screen.
ScreenFollowsRoute ==
  (Running(cp) /\ Route(cp) \in {"search", "branch", "author", "conflict"})
     => Screen(cp) = Route(cp)

\* C38: whenever range-select is open, both range bounds are indices into
\* the current commit sequence; in particular a reload on a branch confirm
\* does not leave range-select open with bounds of the previous sequence.
RangeBoundsValid(s) ==
  \A b \in {s.rangeStart, s.rangeEnd} : 0 <= b /\ b < Len(s.commits)

ReloadClosesRange ==
  [][BranchEnter => (cp'.rangeSelection => RangeBoundsValid(cp'))]_vars

\* C39: while a branch or author switch session is active its cursor is
\* never negative and, when the visible candidate list is not empty, is
\* smaller than the number of visible candidates.
SwitchCursorWithin(i, n) == 0 <= i /\ (n > 0 => i < n)

SwitchCursorInBounds ==
  /\ (Running(cp) /\ cp.branchMode)
        => SwitchCursorWithin(cp.branchIndex, Len(cp.availableBranches))
  /\ (Running(cp) /\ cp.authorMode)
        => SwitchCursorWithin(cp.authorIndex, Len(getVisibleAuthors(cp)))

\* Reordering and reloading: the order key in either initial order, the
\* cursor and selection keys, and a branch session with its confirm.
NextReorder ==
  \/ KeyOrder \/ KeyDown \/ KeyUp \/ KeyToggle
  \/ KeyBranch \/ BranchDown \/ BranchUp \/ BranchEsc \/ BranchEnter

SpecReorder == Init /\ [][NextReorder]_vars

\* C40: the reverse flag always agrees with the order of the backing
\* sequence: after the initial load, every toggle-order and every reload the
\* commits are oldest-first exactly when the flag is false and newest-first
\* exactly when it is true.
OldestFirst(commits) ==
  \A k \in 1..(Len(commits) - 1) : commits[k].Date < commits[k + 1].Date

NewestFirst(commits) ==
  \A k \in 1..(Len(commits) - 1) : commits[k].Date > commits[k + 1].Date

OrderAgreesWithFlag ==
  /\ ~cp.reverse => OldestFirst(cp.commits)
  /\ cp.reverse => NewestFirst(cp.commits)
  /\ Len(cp.commits) >= 2 => (OldestFirst(cp.commits) <=> ~cp.reverse)

ReloadedNewestFirstWitness ==
  /\ cp.reverse /\ Len(cp.commits) >= 2 /\ NewestFirst(cp.commits)
  /\ cp.config.TargetBranch = "main"
  /\ InDefault

====
